---- MODULE Spec2Model ----
(***************************************************************************)
(* A model of src/src/sysmon.c: the FreeRTOS task/heap sampler of sysmon.   *)
(*                                                                          *)
(* The state is the module singleton `self` (task table, scratch snapshot   *)
(* buffer, capacity, series buffers, carried baselines), the function-      *)
(* static previous idle counters of _calculate_cpu_metrics, the position of *)
(* the sysmon_monitor task inside its loop with its live locals, and the    *)
(* heap blocks the sampler has allocated.                                   *)
(*                                                                          *)
(* float values are modelled as exact rationals <<numerator, denominator>>  *)
(* in lowest terms. A uint32_t is an unsigned word of WordBits bits: all    *)
(* its arithmetic is modulo 2^WordBits, with UINT32_MAX = 2^WordBits - 1.   *)
(* Task names are atomic values: TaskUsageSample.task_name (declared in     *)
(* sysmon.h) is taken to be large enough for every kernel task name, so     *)
(* that strncpy stores and strncmp compares the whole name.                 *)
(***************************************************************************)
EXTENDS Integers, Sequences, FiniteSets, TLC

\* ------------------------------------------------------------------ bounds
\* CONFIG_SYSMON_SAMPLE_COUNT (Kconfig), scaled down.
SAMPLE_COUNT == 3
\* SYSMON_MAX_TRACKED_TASKS (sysmon.h), scaled down.
SYSMON_MAX_TRACKED_TASKS == 6
\* Largest number of tasks the kernel holds while the sampler alone is followed.
MaxLiveTasks == 2
\* Number of vTaskDelay calls the sampling specification follows.
MaxCycles == 4
\* Number of vTaskDelay calls the whole-program specification follows.
MaxLifecycleCycles == 1

\* sizeof(StackType_t): portSTACK_TYPE is uint8_t on the ESP-IDF ports.
StackTypeSize == 1

\* Width of the model's uint32_t (the checker's integers are 32-bit signed).
WordBits == 10
U32 == 2^WordBits
UINT32_MAX == U32 - 1

\* ------------------------------------------------------------------ rationals
RECURSIVE GCD(_, _)
GCD(a, b) == IF b = 0 THEN a ELSE GCD(b, a % b)

Abs(n) == IF n < 0 THEN -n ELSE n

\* n/d in lowest terms (d > 0).
Frac(n, d) == LET g == GCD(Abs(n), d) IN <<n \div g, d \div g>>
FZero == <<0, 1>>
FInt(n) == <<n, 1>>
FLe(a, b) == a[1] * b[2] <= b[1] * a[2]
FAdd(a, b) == Frac(a[1] * b[2] + b[1] * a[2], a[2] * b[2])
FSub(a, b) == Frac(a[1] * b[2] - b[1] * a[2], a[2] * b[2])
FHalf(a) == Frac(a[1], 2 * a[2])

\* ------------------------------------------------------------------ data
Idx == 0 .. (SAMPLE_COUNT - 1)
NoName == ""

\* A TaskUsageSample after memset(.., 0, ..) / calloc.
ZeroSlot ==
    [ task_name                   |-> NoName,
      is_active                   |-> FALSE,
      consecutive_zero_samples    |-> 0,
      prev_run_time_ticks         |-> 0,
      write_index                 |-> 0,
      usage_percent_history       |-> [i \in Idx |-> FZero],
      stack_usage_bytes_history   |-> [i \in Idx |-> 0],
      stack_usage_percent_history |-> [i \in Idx |-> FZero],
      stack_high_water_mark       |-> 0,
      stack_size_bytes            |-> 0,
      task_id                     |-> 0,
      current_priority            |-> 0,
      base_priority               |-> 0,
      total_run_time_ticks        |-> 0,
      core_id                     |-> 0 ]

\* calloc(n, sizeof(TaskUsageSample))
ZeroTable(n) == [j \in 0 .. (n - 1) |-> ZeroSlot]
NoTable == ZeroTable(0)

\* The singleton's series buffers at program start (SysMonState self = {0}).
ZeroSeries ==
    [ cpu_overall_percent |-> [i \in Idx |-> FZero],
      cpu_core_percent_0  |-> [i \in Idx |-> FZero],
      cpu_core_percent_1  |-> [i \in Idx |-> FZero],
      dram_free           |-> [i \in Idx |-> 0],
      dram_min_free       |-> [i \in Idx |-> 0],
      dram_largest_block  |-> [i \in Idx |-> 0],
      dram_total          |-> [i \in Idx |-> 0],
      dram_used_percent   |-> [i \in Idx |-> FZero],
      psram_free          |-> [i \in Idx |-> 0],
      psram_total         |-> [i \in Idx |-> 0],
      psram_used_percent  |-> [i \in Idx |-> FZero] ]

VARIABLES
    monitor_task_handle,  \* self.monitor_task_handle != NULL
    nloops,               \* number of sysmon_monitor tasks that exist
    tasks_ptr,            \* self.tasks: "NULL", "VALID" or "FREED" (dangling)
    status_ptr,           \* self.task_status: "NULL", "VALID" or "FREED"
    task_status,          \* the entries of *self.task_status still to be read
    tasks,                \* contents of *self.tasks
    task_capacity,        \* self.task_capacity
    prev_total_run_time,  \* self.prev_total_run_time
    prev_idle_ticks,      \* static prev_idle_ticks_0/1 of _calculate_cpu_metrics
    series,               \* the global series buffers of self
    series_write_index,   \* self.series_write_index
    psram_seen,           \* self.psram_seen
    pc,                   \* position of the sysmon_monitor task
    num_returned,         \* local of sysmon_monitor
    delta_total,          \* local of sysmon_monitor
    actual_task_count,    \* local of _ensure_task_storage_capacity
    new_tasks,            \* local of _ensure_task_storage_capacity
    held,                 \* heap blocks only the loop's locals point to
    leaked,               \* heap blocks no pointer refers to any more
    heap_fault,           \* a block was freed twice
    skip,                 \* why the current iteration was abandoned
    api,                  \* outcome of the latest sysmon_init/sysmon_deinit
    iter0,                \* committed sampler state when the iteration began
    cycles,               \* iterations finished so far
    kernel_time           \* the kernel's run-time counter (ulTotalRunTime)

vars == << monitor_task_handle, nloops, tasks_ptr, status_ptr, task_status, tasks,
           task_capacity, prev_total_run_time, prev_idle_ticks, series,
           series_write_index, psram_seen, pc, num_returned, delta_total,
           actual_task_count, new_tasks, held, leaked, heap_fault, skip, api,
           iter0, cycles, kernel_time >>

selfTable == << tasks_ptr, status_ptr, tasks, task_capacity >>
selfSeries == << series, series_write_index, psram_seen, prev_idle_ticks >>
lifecycle == << monitor_task_handle, nloops, api >>
heapVars == << held, leaked, heap_fault >>

\* The committed sampler state an iteration starts from.
Committed(tbl, cap, ptot, pidle, ser, swi) ==
    [ slots  |-> [j \in {k \in 0 .. (cap - 1) : tbl[k].is_active} |-> tbl[j]],
      task_capacity       |-> cap,
      prev_total_run_time |-> ptot,
      prev_idle_ticks     |-> pidle,
      series              |-> ser,
      series_write_index  |-> swi ]


\* ------------------------------------------------------------------ capacity
Min(a, b) == IF a <= b THEN a ELSE b
Max(a, b) == IF a >= b THEN a ELSE b

RequiredCapacityUnclamped(task_count, buffer_was_full) ==
    LET growth_percent == IF buffer_was_full THEN 50 ELSE 20
        growth_buffer  == Max((task_count * growth_percent) \div 100, 1)
    IN  task_count + growth_buffer

RequiredCapacitySlow(task_count, buffer_was_full) ==
    Min(task_count + Max((task_count * 20) \div 100, 1), SYSMON_MAX_TRACKED_TASKS)

\* required_capacity of _ensure_task_storage_capacity.
RequiredCapacity(task_count, buffer_was_full) ==
    Min(RequiredCapacityUnclamped(task_count, buffer_was_full),
        SYSMON_MAX_TRACKED_TASKS)

CopyAllTasks(old, old_capacity, fresh) ==
    [j \in DOMAIN fresh |-> IF j < old_capacity THEN old[j] ELSE fresh[j]]

\* The copy loop: active slots keep their index, the rest stays calloc'ed.
CopyActiveTasks(old, old_capacity, fresh) ==
    [j \in DOMAIN fresh |->
        IF j < old_capacity /\ old[j].is_active THEN old[j] ELSE fresh[j]]

\* What _ensure_task_storage_capacity still holds when malloc of the scratch
\* buffer fails after calloc of the table succeeded: free(new_tasks).
HeldAfterStatusFailureKeep(h) == h \cup {"new_tasks"}
HeldAfterStatusFailure(h) == h \ {"new_tasks"}

\* ------------------------------------------------------------------ sampler
DeltaNoCarry(now, prev) ==
    IF now >= prev THEN now - prev ELSE ((UINT32_MAX - prev) + now) % U32

\* delta_total of _sample_task_states (uint32_t arithmetic).
DeltaTotal(now, prev) ==
    IF now >= prev THEN now - prev ELSE ((UINT32_MAX - prev) + now + 1) % U32

\* ------------------------------------------------------------------ resolver
ActiveMatches(tbl, cap, name) ==
    {j \in 0 .. (cap - 1) : tbl[j].is_active /\ tbl[j].task_name = name}
InactiveSlots(tbl, cap) == {j \in 0 .. (cap - 1) : ~tbl[j].is_active}

SetMin(S) == CHOOSE x \in S : \A y \in S : x <= y

FindActiveIndexFirstOnly(tbl, cap, name) ==
    IF cap > 0 /\ tbl[0].is_active /\ tbl[0].task_name = name THEN 0 ELSE -1

\* First loop of _find_or_create_task_index: the active slot of that name.
FindActiveIndex(tbl, cap, name) ==
    IF ActiveMatches(tbl, cap, name) # {}
    THEN SetMin(ActiveMatches(tbl, cap, name)) ELSE -1

ClaimSlotNoMemset(old, name) ==
    [old EXCEPT !.task_name = name, !.is_active = TRUE,
                !.consecutive_zero_samples = 0]

\* memset + strncpy + is_active = true + consecutive_zero_samples = 0.
ClaimSlot(old, name) ==
    [ZeroSlot EXCEPT !.task_name = name, !.is_active = TRUE,
                     !.consecutive_zero_samples = 0]

\* _find_or_create_task_index: the index returned (-1: none) and the table.
FindOrCreateTaskIndex(tbl, cap, name) ==
    LET found == FindActiveIndex(tbl, cap, name)
        free  == InactiveSlots(tbl, cap)
    IN  IF found # -1 THEN [idx |-> found, tbl |-> tbl, created |-> FALSE]
        ELSE IF free # {}
        THEN LET j == SetMin(free)
             IN  [idx |-> j, created |-> TRUE,
                  tbl |-> [tbl EXCEPT ![j] = ClaimSlot(tbl[j], name)]]
        ELSE [idx |-> -1, tbl |-> tbl, created |-> FALSE]

\* ------------------------------------------------------------------ per-task
SeenCounterKept(misses) == misses
\* Line 235: the task is present, its miss counter starts again.
SeenCounter(misses) == 0

\* _update_task_history for slot s and snapshot entry t.
UpdateTaskHistory(s, t, dtotal) ==
    LET delta_task == IF t.ulRunTimeCounter >= s.prev_run_time_ticks
                      THEN t.ulRunTimeCounter - s.prev_run_time_ticks ELSE 0
        usage == IF dtotal > 0 THEN Frac(delta_task * 100, dtotal) ELSE FZero
        stack_hwm_bytes  == (t.usStackHighWaterMark * StackTypeSize) % U32
        stack_size_bytes == t.stack_size
        stack_used_bytes == IF stack_size_bytes > 0 /\ stack_size_bytes > stack_hwm_bytes
                            THEN stack_size_bytes - stack_hwm_bytes ELSE 0
        stack_usage_percent == IF stack_size_bytes > 0
                               THEN Frac(stack_used_bytes * 100, stack_size_bytes)
                               ELSE FZero
        w == s.write_index
    IN  [s EXCEPT
            !.prev_run_time_ticks = t.ulRunTimeCounter,
            !.consecutive_zero_samples = SeenCounter(@),
            !.usage_percent_history[w] = usage,
            !.stack_high_water_mark = t.usStackHighWaterMark,
            !.stack_size_bytes = stack_size_bytes,
            !.stack_usage_bytes_history[w] = stack_used_bytes,
            !.stack_usage_percent_history[w] = stack_usage_percent,
            !.write_index = (w + 1) % SAMPLE_COUNT,
            !.task_id = t.xTaskNumber,
            !.current_priority = t.uxCurrentPriority,
            !.base_priority = t.uxBasePriority,
            !.total_run_time_ticks = t.ulRunTimeCounter,
            !.core_id = -1]

NullName == "<NULL>"

RECURSIVE UpdateLoopBreak(_, _, _, _, _, _)
UpdateLoopBreak(tbl, cap, seen, snap, dtotal, i) ==
    IF i > Len(snap) THEN [tbl |-> tbl, seen |-> seen]
    ELSE IF snap[i].pcTaskName = NullName
    THEN UpdateLoopBreak(tbl, cap, seen, snap, dtotal, i + 1)
    ELSE LET r == FindOrCreateTaskIndex(tbl, cap, snap[i].pcTaskName)
         IN  IF r.idx = -1
             THEN [tbl |-> tbl, seen |-> seen]
             ELSE UpdateLoopBreak(
                     [r.tbl EXCEPT ![r.idx] = UpdateTaskHistory(@, snap[i], dtotal)],
                     cap, seen \cup {r.idx}, snap, dtotal, i + 1)

\* The for loop of step 3 of sysmon_monitor over snapshot entries i..Len(snap).
RECURSIVE UpdateLoop(_, _, _, _, _, _)
UpdateLoop(tbl, cap, seen, snap, dtotal, i) ==
    IF i > Len(snap) THEN [tbl |-> tbl, seen |-> seen]
    ELSE IF snap[i].pcTaskName = NullName
    THEN UpdateLoop(tbl, cap, seen, snap, dtotal, i + 1)
    ELSE LET r == FindOrCreateTaskIndex(tbl, cap, snap[i].pcTaskName)
         IN  IF r.idx = -1
             THEN UpdateLoop(tbl, cap, seen, snap, dtotal, i + 1)
             ELSE UpdateLoop(
                     [r.tbl EXCEPT ![r.idx] = UpdateTaskHistory(@, snap[i], dtotal)],
                     cap, seen \cup {r.idx}, snap, dtotal, i + 1)

EvictionDueLate(misses) == misses > SAMPLE_COUNT
EvictionDueEarly(misses) == misses >= SAMPLE_COUNT - 1
\* The deactivation test of _process_deleted_tasks.
EvictionDue(misses) == misses >= SAMPLE_COUNT

MissSlotUncounted(s) == s
\* _process_deleted_tasks on one active slot that was not seen.
MissSlot(s) ==
    LET w == s.write_index
        m == s.consecutive_zero_samples + 1
        z == [s EXCEPT
                !.usage_percent_history[w] = FZero,
                !.stack_usage_bytes_history[w] = 0,
                !.stack_usage_percent_history[w] = FZero,
                !.write_index = (w + 1) % SAMPLE_COUNT]
    IN  IF EvictionDue(m)
        THEN [z EXCEPT !.is_active = FALSE, !.consecutive_zero_samples = 0]
        ELSE [z EXCEPT !.consecutive_zero_samples = m]

ProcessDeletedTasks(tbl, cap, seen) ==
    [j \in 0 .. (cap - 1) |->
        IF tbl[j].is_active /\ j \notin seen THEN MissSlot(tbl[j]) ELSE tbl[j]]

\* ------------------------------------------------------------------ cpu
\* The idle-counter scan: the last snapshot entry with that handle, else 0.
RECURSIVE IdleTicks(_, _, _, _)
IdleTicks(snap, handle, i, acc) ==
    IF i > Len(snap) THEN acc
    ELSE IdleTicks(snap, handle, i + 1,
                   IF snap[i].xHandle = handle THEN snap[i].ulRunTimeCounter ELSE acc)

\* delta_idle_N of _calculate_cpu_metrics.
DeltaIdle(now, prev) == IF now >= prev THEN now - prev ELSE 0

Clamp0To100(x) ==
    IF ~FLe(FZero, x) THEN FZero
    ELSE IF ~FLe(x, FInt(100)) THEN FInt(100) ELSE x

CoreUsageNoClamp(delta_idle, dtotal) ==
    IF dtotal > 0
    THEN FSub(FInt(100), Frac(delta_idle * 100, dtotal))
    ELSE FZero

\* *core_usage_N: 100 - idle percent, clamped to [0, 100]; 0 if no time passed.
CoreUsage(delta_idle, dtotal) ==
    IF dtotal > 0
    THEN Clamp0To100(FSub(FInt(100), Frac(delta_idle * 100, dtotal)))
    ELSE FZero

OverallUsage(c0, c1) == FHalf(FAdd(c0, c1))

\* ------------------------------------------------------------------ memory
UsedPercent(total, free) ==
    IF total > 0
    THEN Frac((IF total > free THEN total - free ELSE 0) * 100, total)
    ELSE FZero

PsramSeenNow(seen, psram_total) == psram_total > 0
\* self.psram_seen after _collect_memory_stats.
PsramSeen(seen, psram_total) == seen \/ psram_total > 0

UpdateSeriesSkewed(ser, w, overall, c0, c1, m) ==
    [ser EXCEPT
        !.cpu_overall_percent[w] = overall,
        !.cpu_core_percent_0[w]  = c0,
        !.cpu_core_percent_1[w]  = c1,
        !.dram_free[w]           = m.dram_free,
        !.dram_min_free[w]       = m.dram_min_free,
        !.dram_largest_block[w]  = m.dram_largest,
        !.dram_total[w]          = m.dram_total,
        !.dram_used_percent[w]   = UsedPercent(m.dram_total, m.dram_free),
        !.psram_free[(w + 1) % SAMPLE_COUNT]  = m.psram_free,
        !.psram_total[(w + 1) % SAMPLE_COUNT] = m.psram_total,
        !.psram_used_percent[(w + 1) % SAMPLE_COUNT] =
            UsedPercent(m.psram_total, m.psram_free)]

\* _update_series_buffers
UpdateSeries(ser, w, overall, c0, c1, m) ==
    [ser EXCEPT
        !.cpu_overall_percent[w] = overall,
        !.cpu_core_percent_0[w]  = c0,
        !.cpu_core_percent_1[w]  = c1,
        !.dram_free[w]           = m.dram_free,
        !.dram_min_free[w]       = m.dram_min_free,
        !.dram_largest_block[w]  = m.dram_largest,
        !.dram_total[w]          = m.dram_total,
        !.dram_used_percent[w]   = UsedPercent(m.dram_total, m.dram_free),
        !.psram_free[w]          = m.psram_free,
        !.psram_total[w]         = m.psram_total,
        !.psram_used_percent[w]  = UsedPercent(m.psram_total, m.psram_free)]


\* ------------------------------------------------------------------ inputs
\* A TaskStatus_t as uxTaskGetSystemState fills it, with the size the stack
\* registry (sysmon_stack_get_size) answers for its handle.
Entry(name, handle, run, hwm, size) ==
    [ pcTaskName |-> name, xHandle |-> handle, ulRunTimeCounter |-> run,
      usStackHighWaterMark |-> hwm, stack_size |-> size,
      xTaskNumber |-> 1, uxCurrentPriority |-> 1, uxBasePriority |-> 1 ]

\* What the heap capability queries answer in the cycle after c delays: the
\* free sizes shrink from cycle to cycle, the totals stay.
MemReading(c, psram_total) ==
    [ dram_free     |-> 7 - (c % 7),
      dram_min_free |-> 6 - (c % 7),
      dram_largest  |-> (7 - (c % 7)) \div 2,
      dram_total    |-> 8,
      psram_free    |-> IF psram_total > 0 THEN psram_total - 1 - (c % 7) ELSE 0,
      psram_total   |-> psram_total ]

\* The kernel of the main specifications: the run-time counter stands just
\* before its wrap at boot and advances by TicksPerCycle during each vTaskDelay;
\* task n has run for 1/ShareOf(n) of the time.
BootTime == UINT32_MAX - 2
TicksPerCycle == 4
Names == {"A", "B"}
LifecycleNames == {"A"}
ShareOf(n) == IF n = "A" THEN 2 ELSE 4
Entries(N, t) == {Entry(n, "T", t \div ShareOf(n), 2, 8) : n \in N}
PsramTotal == 8
MemReadings(c) == {MemReading(c, PsramTotal)}
LifecycleMemReadings(c) == {MemReading(c, p) : p \in {0, PsramTotal}}
Snapshots(n, E) == [1 .. n -> E]

\* ------------------------------------------------------------------ Init
Init ==
    /\ monitor_task_handle = FALSE
    /\ nloops = 0
    /\ tasks_ptr = "NULL"
    /\ status_ptr = "NULL"
    /\ task_status = << >>
    /\ tasks = NoTable
    /\ task_capacity = 0
    /\ prev_total_run_time = 0
    /\ prev_idle_ticks = <<0, 0>>
    /\ series = ZeroSeries
    /\ series_write_index = 0
    /\ psram_seen = FALSE
    /\ pc = "none"
    /\ num_returned = 0
    /\ delta_total = 0
    /\ actual_task_count = 0
    /\ new_tasks = NoTable
    /\ held = {}
    /\ leaked = {}
    /\ heap_fault = FALSE
    /\ skip = "none"
    /\ api = "none"
    /\ iter0 = Committed(NoTable, 0, 0, <<0, 0>>, ZeroSeries, 0)
    /\ cycles = 0
    /\ kernel_time = BootTime

\* ------------------------------------------------------------------ lifecycle
MonitorAbsentAlways(handle) == TRUE
\* The singleton test of sysmon_init: self.monitor_task_handle == NULL.
MonitorAbsent(handle) == handle = FALSE

\* sysmon_init: WiFi check, sysmon_http_start, then the monitor task.
SysmonInit(wifi_ok, http_ok, create_ok) ==
    /\ ~heap_fault
    /\ IF ~wifi_ok \/ ~http_ok
       THEN /\ api' = "init_error"
            /\ UNCHANGED << monitor_task_handle, nloops, pc, iter0 >>
       ELSE IF MonitorAbsent(monitor_task_handle)
       THEN IF create_ok
            THEN /\ monitor_task_handle' = TRUE
                 /\ nloops' = nloops + 1
                 /\ pc' = "ensure"
                 /\ iter0' = Committed(tasks, task_capacity, prev_total_run_time,
                                       prev_idle_ticks, series, series_write_index)
                 /\ api' = "init_created"
            ELSE /\ api' = "init_error"
                 /\ UNCHANGED << monitor_task_handle, nloops, pc, iter0 >>
       ELSE /\ api' = "init_already_running"
            /\ UNCHANGED << monitor_task_handle, nloops, pc, iter0 >>
    /\ UNCHANGED << selfTable, task_status, selfSeries, prev_total_run_time,
                    num_returned, delta_total, actual_task_count, new_tasks,
                    heapVars, skip, cycles, kernel_time >>

\* sysmon_deinit: vTaskDelete of the monitor, then free of both buffers.
SysmonDeinit ==
    /\ ~heap_fault
    /\ IF monitor_task_handle
       THEN /\ nloops' = nloops - 1
            /\ pc' = "none"
            /\ leaked' = leaked \cup held
            /\ held' = {}
            /\ num_returned' = 0
            /\ delta_total' = 0
            /\ actual_task_count' = 0
            /\ new_tasks' = NoTable
            /\ skip' = "none"
            /\ api' = "deinit_stopped"
       ELSE /\ api' = "deinit_idle"
            /\ UNCHANGED << nloops, pc, leaked, held, num_returned, delta_total,
                            actual_task_count, new_tasks, skip >>
    /\ monitor_task_handle' = FALSE
    /\ heap_fault' = (tasks_ptr = "FREED" \/ status_ptr = "FREED")
    /\ tasks_ptr' = "NULL"
    /\ status_ptr' = "NULL"
    /\ task_status' = << >>
    /\ tasks' = NoTable
    /\ task_capacity' = 0
    /\ prev_total_run_time' = 0
    /\ UNCHANGED << selfSeries, iter0, cycles, kernel_time >>

\* ------------------------------------------------------------------ the loop
Running == monitor_task_handle /\ ~heap_fault

\* An iteration ends early: vTaskDelay and continue.
Abandon(why) ==
    /\ pc' = "sleep"
    /\ skip' = why

\* The test of line 68: a table and a scratch buffer exist.
HasBuffer == task_capacity > 0 /\ status_ptr # "NULL"

\* _ensure_task_storage_capacity, lines 66-72 and 83-87: the task count, from
\* the kernel query (num entries) or from uxTaskGetNumberOfTasks (ntasks).
EnsureQuery(num, ntasks) ==
    /\ Running
    /\ pc = "ensure"
    /\ actual_task_count' = IF HasBuffer THEN num ELSE ntasks
    /\ pc' = "sized"
    /\ UNCHANGED << lifecycle, selfTable, task_status, selfSeries,
                    prev_total_run_time, num_returned, delta_total, new_tasks,
                    heapVars, skip, iter0, cycles, kernel_time >>

\* The early return of lines 75-78.
EnoughSpace(has_buffer, count, capacity) == has_buffer /\ count < capacity

\* _ensure_task_storage_capacity from the early return to the two allocations
\* (lines 74-82 and 89-122).
EnsureCapacity(calloc_ok, malloc_ok) ==
    /\ Running
    /\ pc = "sized"
    /\ actual_task_count' = 0
    /\ LET buffer_was_full == HasBuffer /\ actual_task_count = task_capacity
           required_capacity == RequiredCapacity(actual_task_count, buffer_was_full)
       IN  IF \/ EnoughSpace(HasBuffer, actual_task_count, task_capacity)
              \/ required_capacity <= task_capacity
           THEN /\ pc' = "sample"
                /\ UNCHANGED << new_tasks, held, skip >>
           ELSE IF ~calloc_ok
           THEN /\ Abandon("grow_alloc")
                /\ UNCHANGED << new_tasks, held >>
           ELSE IF ~malloc_ok
           THEN /\ Abandon("grow_alloc")
                /\ held' = HeldAfterStatusFailure(held \cup {"new_tasks"})
                /\ UNCHANGED new_tasks
           ELSE /\ pc' = "copy"
                /\ new_tasks' = ZeroTable(required_capacity)
                /\ held' = held \cup {"new_tasks", "new_status"}
                /\ UNCHANGED skip
    /\ UNCHANGED << lifecycle, selfTable, task_status, selfSeries,
                    prev_total_run_time, num_returned, delta_total, leaked,
                    heap_fault, iter0, cycles, kernel_time >>

\* Lines 124-138: copy the active slots, free the old table and scratch buffer.
EnsureCopyFree ==
    /\ Running
    /\ pc = "copy"
    /\ new_tasks' = IF tasks_ptr # "NULL"
                    THEN CopyActiveTasks(tasks, task_capacity, new_tasks)
                    ELSE new_tasks
    /\ tasks_ptr' = IF tasks_ptr = "NULL" THEN "NULL" ELSE "FREED"
    /\ status_ptr' = IF status_ptr = "NULL" THEN "NULL" ELSE "FREED"
    /\ tasks' = NoTable
    /\ pc' = "adopt"
    /\ UNCHANGED << lifecycle, task_capacity, task_status, selfSeries,
                    prev_total_run_time, num_returned, delta_total,
                    actual_task_count, heapVars, skip, iter0, cycles, kernel_time >>

\* Lines 139-143: the ownership hand-off.
EnsureAdopt ==
    /\ Running
    /\ pc = "adopt"
    /\ tasks' = new_tasks
    /\ tasks_ptr' = "VALID"
    /\ status_ptr' = "VALID"
    /\ task_capacity' = Cardinality(DOMAIN new_tasks)
    /\ held' = held \ {"new_tasks", "new_status"}
    /\ new_tasks' = NoTable
    /\ pc' = "sample"
    /\ UNCHANGED << lifecycle, task_status, selfSeries, prev_total_run_time,
                    num_returned, delta_total, actual_task_count, leaked,
                    heap_fault, skip, iter0, cycles, kernel_time >>

QueryFailedNever(num) == FALSE
\* The failure test of _sample_task_states: no entry was returned.
QueryFailed(num) == num = 0

\* Step 2 of sysmon_monitor and the calloc of tasks_seen (lines 468-489):
\* _sample_task_states, where the kernel fills self.task_status with snap and
\* returns total_run_time, then the allocation of the seen flags.
SampleTaskStates(snap, total_run_time, calloc_ok) ==
    /\ Running
    /\ pc = "sample"
    /\ IF QueryFailed(Len(snap))
       THEN /\ Abandon("no_tasks")
            /\ UNCHANGED << task_status, num_returned, delta_total,
                            prev_total_run_time, held >>
       ELSE /\ num_returned' = Len(snap)
            /\ delta_total' = DeltaTotal(total_run_time, prev_total_run_time)
            /\ prev_total_run_time' = total_run_time
            /\ IF calloc_ok
               THEN /\ held' = held \cup {"tasks_seen"}
                    /\ task_status' = snap
                    /\ pc' = "update"
                    /\ UNCHANGED skip
               ELSE /\ Abandon("seen_alloc")
                    /\ UNCHANGED << task_status, held >>
    /\ UNCHANGED << lifecycle, selfTable, selfSeries, actual_task_count,
                    new_tasks, leaked, heap_fault, iter0, cycles, kernel_time >>

\* Steps 3-7 of sysmon_monitor on the snapshot in self.task_status, which is
\* not read again once _calculate_cpu_metrics has returned.
Process(mem) ==
    /\ Running
    /\ pc = "update"
    /\ LET snap == task_status
           r == UpdateLoop(tasks, task_capacity, {}, snap, delta_total, 1)
           idle_ticks_0 == IdleTicks(snap, "IDLE0", 1, 0)
           idle_ticks_1 == IdleTicks(snap, "IDLE1", 1, 0)
           core_usage_0 == CoreUsage(DeltaIdle(idle_ticks_0, prev_idle_ticks[1]),
                                     delta_total)
           core_usage_1 == CoreUsage(DeltaIdle(idle_ticks_1, prev_idle_ticks[2]),
                                     delta_total)
       IN  /\ tasks' = ProcessDeletedTasks(r.tbl, task_capacity, r.seen)
           /\ prev_idle_ticks' = <<idle_ticks_0, idle_ticks_1>>
           /\ psram_seen' = PsramSeen(psram_seen, mem.psram_total)
           /\ series' = UpdateSeries(series, series_write_index,
                                     OverallUsage(core_usage_0, core_usage_1),
                                     core_usage_0, core_usage_1, mem)
           /\ series_write_index' = (series_write_index + 1) % SAMPLE_COUNT
    /\ held' = held \ {"tasks_seen"}
    /\ task_status' = << >>
    /\ Abandon("completed")
    /\ UNCHANGED << lifecycle, tasks_ptr, status_ptr, task_capacity,
                    prev_total_run_time, num_returned, delta_total,
                    actual_task_count, new_tasks, leaked, heap_fault, iter0, cycles,
                    kernel_time >>

\* vTaskDelay, then the next iteration begins.
Delay(limit) ==
    /\ Running
    /\ pc = "sleep"
    /\ cycles < limit
    /\ cycles' = cycles + 1
    /\ kernel_time' = (kernel_time + TicksPerCycle) % U32
    /\ pc' = "ensure"
    /\ skip' = "none"
    /\ num_returned' = 0
    /\ delta_total' = 0
    /\ iter0' = Committed(tasks, task_capacity, prev_total_run_time,
                          prev_idle_ticks, series, series_write_index)
    /\ UNCHANGED << lifecycle, selfTable, task_status, selfSeries,
                    prev_total_run_time, actual_task_count, new_tasks, heapVars >>

\* ------------------------------------------------------------------ Spec
Start == \E wifi_ok, http_ok, create_ok \in BOOLEAN :
            SysmonInit(wifi_ok, http_ok, create_ok)
Stop == SysmonDeinit
\* The sampler on a kernel of at most MaxLiveTasks tasks with names in Names.
Query == \E num \in 0 .. Min(task_capacity, MaxLiveTasks),
            ntasks \in 1 .. MaxLiveTasks :
            EnsureQuery(num, ntasks)
Ensure == \E calloc_ok, malloc_ok \in BOOLEAN : EnsureCapacity(calloc_ok, malloc_ok)
Sample == \E num \in 0 .. Min(task_capacity, MaxLiveTasks), calloc_ok \in BOOLEAN :
            \E snap \in Snapshots(num, Entries(Names, kernel_time)) :
                SampleTaskStates(snap, kernel_time, calloc_ok)
Update == \E mem \in MemReadings(cycles) : Process(mem)
Sleep == Delay(MaxCycles)
\* The whole program on a kernel whose tasks are all named alike: it holds one
\* or four tasks when the table is first sized, and a query answers with no
\* entry, with one, or with as many as the table has slots.
LifecycleTaskCounts == {1, 4}
LifecycleQuery ==
    \E num \in {0, 1, task_capacity}, ntasks \in LifecycleTaskCounts :
        EnsureQuery(num, ntasks)
LifecycleSample ==
    \E num \in {0, 1, task_capacity}, calloc_ok \in BOOLEAN :
        \E snap \in Snapshots(num, Entries(LifecycleNames, kernel_time)) :
            SampleTaskStates(snap, kernel_time, calloc_ok)
LifecycleUpdate == \E mem \in LifecycleMemReadings(cycles) : Process(mem)
LifecycleSleep == Delay(MaxLifecycleCycles)

\* The whole program: both API calls at any time, the loop step by step.
Next ==
    \/ Start
    \/ Stop
    \/ LifecycleQuery
    \/ Ensure
    \/ EnsureCopyFree
    \/ EnsureAdopt
    \/ LifecycleSample
    \/ LifecycleUpdate
    \/ LifecycleSleep

Spec == Init /\ [][Next]_vars

\* The sampler left running: the state a first successful sysmon_init leaves,
\* then the loop alone, with no further API call.
InitSampling ==
    /\ monitor_task_handle = TRUE
    /\ nloops = 1
    /\ tasks_ptr = "NULL"
    /\ status_ptr = "NULL"
    /\ task_status = << >>
    /\ tasks = NoTable
    /\ task_capacity = 0
    /\ prev_total_run_time = 0
    /\ prev_idle_ticks = <<0, 0>>
    /\ series = ZeroSeries
    /\ series_write_index = 0
    /\ psram_seen = FALSE
    /\ pc = "ensure"
    /\ num_returned = 0
    /\ delta_total = 0
    /\ actual_task_count = 0
    /\ new_tasks = NoTable
    /\ held = {}
    /\ leaked = {}
    /\ heap_fault = FALSE
    /\ skip = "none"
    /\ api = "init_created"
    /\ iter0 = Committed(NoTable, 0, 0, <<0, 0>>, ZeroSeries, 0)
    /\ cycles = 0
    /\ kernel_time = BootTime

NextSampling ==
    \/ Query
    \/ Ensure
    \/ EnsureCopyFree
    \/ EnsureAdopt
    \/ Sample
    \/ Update
    \/ Sleep

SpecSampling == InitSampling /\ [][NextSampling]_vars


\* ------------------------------------------------------------------ metrics
\* The arithmetic of one cycle on its own: the carried baselines and the
\* kernel's counters are drawn from CounterSamples and IdleSamples, the table
\* is an empty one of MetricsCapacity slots, and the loop is about to sample.
MetricsCapacity == 2
CounterSamples == {0, 1, 4, 1000, UINT32_MAX - 2, UINT32_MAX}
IdleSamples == {0, 600, 800, UINT32_MAX}
IdleEntries == {Entry(h, h, c, 2, 8) : h \in {"IDLE0", "IDLE1"}, c \in IdleSamples}

InitMetrics ==
    /\ monitor_task_handle = TRUE
    /\ nloops = 1
    /\ tasks_ptr = "VALID"
    /\ status_ptr = "VALID"
    /\ task_status = << >>
    /\ tasks = ZeroTable(MetricsCapacity)
    /\ task_capacity = MetricsCapacity
    /\ prev_total_run_time \in CounterSamples
    /\ prev_idle_ticks \in IdleSamples \X IdleSamples
    /\ series = ZeroSeries
    /\ series_write_index = 0
    /\ psram_seen = FALSE
    /\ pc = "sample"
    /\ num_returned = 0
    /\ delta_total = 0
    /\ actual_task_count = 0
    /\ new_tasks = NoTable
    /\ held = {}
    /\ leaked = {}
    /\ heap_fault = FALSE
    /\ skip = "none"
    /\ api = "init_created"
    /\ iter0 = Committed(tasks, task_capacity, prev_total_run_time,
                         prev_idle_ticks, series, series_write_index)
    /\ cycles = 0
    /\ kernel_time \in CounterSamples

MetricsSample == \E calloc_ok \in BOOLEAN :
                    \E snap \in Snapshots(MetricsCapacity, IdleEntries) :
                        SampleTaskStates(snap, kernel_time, calloc_ok)

NextMetrics ==
    \/ MetricsSample
    \/ Update

SpecMetrics == InitMetrics /\ [][NextMetrics]_vars

\* ------------------------------------------------------------------ crowded
\* The sampler on a kernel whose tasks carry one name more than the first
\* table has slots.
CrowdedNames == {"A", "B", "C"}
MaxCrowdedCycles == 2
CrowdedSample ==
    \E num \in 0 .. Min(task_capacity, MaxLiveTasks), calloc_ok \in BOOLEAN :
        \E snap \in Snapshots(num, Entries(CrowdedNames, kernel_time)) :
            SampleTaskStates(snap, kernel_time, calloc_ok)
CrowdedSleep == Delay(MaxCrowdedCycles)

NextCrowded ==
    \/ Query
    \/ Ensure
    \/ EnsureCopyFree
    \/ EnsureAdopt
    \/ CrowdedSample
    \/ Update
    \/ CrowdedSleep

SpecCrowded == InitSampling /\ [][NextCrowded]_vars

\* ------------------------------------------------------------------ growth
\* _ensure_task_storage_capacity on its own: the capacity is 0 (no table yet)
\* or any capacity the function can have set, the first GrowthActive slots of
\* the table track tasks sampled once, and the kernel holds up to GrowthLiveTasks
\* tasks when the table is first sized.
GrowthLiveTasks == 7
GrowthCapacities == {0} \cup (2 .. SYSMON_MAX_TRACKED_TASKS)
GrowthSlot(j) ==
    UpdateTaskHistory(ClaimSlot(ZeroSlot, ToString(j)),
                      Entry(ToString(j), "T", 8 + j, 2, 8), 16)
GrowthTable(capacity, active) ==
    [j \in 0 .. (capacity - 1) |-> IF j < active THEN GrowthSlot(j) ELSE ZeroSlot]

InitGrowth ==
    /\ monitor_task_handle = TRUE
    /\ nloops = 1
    /\ task_capacity \in GrowthCapacities
    /\ tasks_ptr = (IF task_capacity > 0 THEN "VALID" ELSE "NULL")
    /\ status_ptr = tasks_ptr
    /\ task_status = << >>
    /\ tasks \in {GrowthTable(task_capacity, a) : a \in 0 .. task_capacity}
    /\ prev_total_run_time = 0
    /\ prev_idle_ticks = <<0, 0>>
    /\ series = ZeroSeries
    /\ series_write_index = 0
    /\ psram_seen = FALSE
    /\ pc = "ensure"
    /\ num_returned = 0
    /\ delta_total = 0
    /\ actual_task_count = 0
    /\ new_tasks = NoTable
    /\ held = {}
    /\ leaked = {}
    /\ heap_fault = FALSE
    /\ skip = "none"
    /\ api = "init_created"
    /\ iter0 = Committed(tasks, task_capacity, prev_total_run_time,
                         prev_idle_ticks, series, series_write_index)
    /\ cycles = 0
    /\ kernel_time = BootTime

GrowthQuery == \E num \in 0 .. task_capacity, ntasks \in 1 .. GrowthLiveTasks :
                  EnsureQuery(num, ntasks)

NextGrowth ==
    \/ GrowthQuery
    \/ Ensure
    \/ EnsureCopyFree
    \/ EnsureAdopt

SpecGrowth == InitGrowth /\ [][NextGrowth]_vars

\* ------------------------------------------------------------------ settled
\* The sampler left running for ever on a kernel whose set of tasks changes
\* once: FirstTasks live until SettleCycle delays have passed, SettledTasks
\* from then on. The run-time counter advances by half of its range during
\* each delay.
SettleCycle == 1
FirstTasks == {"A", "B"}
SettledTasks == {"C", "D", "E"}
LiveTasks(c) == IF c < SettleCycle THEN FirstTasks ELSE SettledTasks
SettledTicks == U32 \div 2

\* The sequences of n distinct members of E.
Orderings(E, n) ==
    {s \in [1 .. n -> E] : \A i, k \in 1 .. n : s[i] = s[k] => i = k}

\* What uxTaskGetSystemState writes into an array of size entries when the
\* tasks of L are live: all of them, in any order, or nothing (it returns 0)
\* when the array is too small for them.
SystemState(L, size, t) ==
    IF size >= Cardinality(L)
    THEN Orderings(Entries(L, t), Cardinality(L))
    ELSE {<< >>}

SettledQuery ==
    \E snap \in SystemState(LiveTasks(cycles), task_capacity, kernel_time) :
        EnsureQuery(Len(snap), Cardinality(LiveTasks(cycles)))
SettledSample ==
    \E calloc_ok \in BOOLEAN :
        \E snap \in SystemState(LiveTasks(cycles), task_capacity, kernel_time) :
            SampleTaskStates(snap, kernel_time, calloc_ok)

\* vTaskDelay in a loop that nothing stops: the delays are counted up to limit.
DelayOn(limit) ==
    /\ Running
    /\ pc = "sleep"
    /\ cycles' = Min(cycles + 1, limit)
    /\ kernel_time' = (kernel_time + SettledTicks) % U32
    /\ pc' = "ensure"
    /\ skip' = "none"
    /\ num_returned' = 0
    /\ delta_total' = 0
    /\ iter0' = Committed(tasks, task_capacity, prev_total_run_time,
                          prev_idle_ticks, series, series_write_index)
    /\ UNCHANGED << lifecycle, selfTable, task_status, selfSeries,
                    prev_total_run_time, actual_task_count, new_tasks, heapVars >>
SettledSleep == DelayOn(SettleCycle)

NextSettled ==
    \/ SettledQuery
    \/ Ensure
    \/ EnsureCopyFree
    \/ EnsureAdopt
    \/ SettledSample
    \/ Update
    \/ SettledSleep

\* The points of the loop of sysmon_monitor, and a step that moves the task
\* from one to another. Every action of NextSettled is such a step, and at
\* every point one of them is enabled.
LoopPoints == {"ensure", "sized", "copy", "adopt", "sample", "update", "sleep"}
LoopAdvances == pc' \in LoopPoints /\ pc' # pc

\* The monitor task is never deleted here and every call it makes returns, so
\* the scheduler runs it again after every delay and it does not stay at one
\* point of its loop for ever.
SpecSettled == InitSampling /\ [][NextSettled]_vars /\ WF_pc(LoopAdvances)

\* ------------------------------------------------------------------ claims
\* Steps of the loop, as seen from outside.
SampledStep == pc = "sample" /\ (pc' = "update" \/ skip' = "seen_alloc")
CompletedStep == pc = "update" /\ pc' = "sleep"

\* C5: for every pair (prev, now) of counter values the sampler's delta_total
\* is (now - prev) modulo the word size: now - prev when now >= prev and
\* (MAX - prev) + now + 1 when now < prev (prev = MAX-2, now = 1 gives 4), and
\* after the sample the carried previous-total baseline equals now.
C5_DeltaTotalWraps ==
    [][SampledStep =>
        LET now  == kernel_time
            prev == prev_total_run_time
        IN  /\ delta_total' = (now - prev) % U32
            /\ now >= prev => delta_total' = now - prev
            /\ now < prev => delta_total' = (UINT32_MAX - prev) + now + 1
            /\ (prev = UINT32_MAX - 2 /\ now = 1) => delta_total' = 4
            /\ prev_total_run_time' = now]_vars

C5_Witness ==
    /\ pc = "update"
    /\ iter0.prev_total_run_time = UINT32_MAX - 2
    /\ prev_total_run_time = 1
    /\ delta_total = 4

\* v is clamp(100 - delta_idle * 100 / dtotal, 0, 100), or 0 when dtotal = 0.
IsCoreUsage(v, delta_idle, dtotal) ==
    IF dtotal = 0 \/ delta_idle > dtotal
    THEN v = FZero
    ELSE v[1] * dtotal = v[2] * 100 * (dtotal - delta_idle)

InPercentRange(v) == v[2] > 0 /\ 0 <= v[1] /\ v[1] <= 100 * v[2]

\* C6: each core's usage is clamp(100 - delta_idle*100/delta_total, 0, 100) when
\* delta_total > 0 and 0 otherwise, overall usage is the average of the two
\* cores, and all three lie in [0, 100] (delta_total = 1000 with idle deltas 800
\* and 600 gives 20, 40 and 30).
C6_CoreUsageClamped ==
    [][CompletedStep =>
        LET w  == series_write_index
            d0 == DeltaIdle(prev_idle_ticks'[1], prev_idle_ticks[1])
            d1 == DeltaIdle(prev_idle_ticks'[2], prev_idle_ticks[2])
            c0 == series'.cpu_core_percent_0[w]
            c1 == series'.cpu_core_percent_1[w]
            o  == series'.cpu_overall_percent[w]
        IN  /\ IsCoreUsage(c0, d0, delta_total)
            /\ IsCoreUsage(c1, d1, delta_total)
            /\ o = FHalf(FAdd(c0, c1))
            /\ InPercentRange(c0) /\ InPercentRange(c1) /\ InPercentRange(o)
            /\ (delta_total = 1000 /\ d0 = 800 /\ d1 = 600)
                => (c0 = FInt(20) /\ c1 = FInt(40) /\ o = FInt(30))]_vars

C6_Witness ==
    /\ pc = "sleep" /\ skip = "completed"
    /\ delta_total = 1000
    /\ iter0.prev_idle_ticks = <<0, 0>>
    /\ prev_idle_ticks = <<800, 600>>
    /\ series.cpu_core_percent_0[0] = FInt(20)
    /\ series.cpu_core_percent_1[0] = FInt(40)
    /\ series.cpu_overall_percent[0] = FInt(30)


ActiveSlots(tbl, cap) == {j \in 0 .. (cap - 1) : tbl[j].is_active}

\* The number of slots that can be read: none while self.tasks is null or
\* points to a released block.
TableSize == IF tasks_ptr = "VALID" THEN task_capacity ELSE 0

\* C1: after any sequence of sampling cycles (tasks appearing and disappearing,
\* table growth, slot eviction and slot reuse) no two active slots of the task
\* table hold the same task name.
C1_OneActiveSlotPerName ==
    \A j, k \in ActiveSlots(tasks, TableSize) :
        tasks[j].task_name = tasks[k].task_name => j = k

\* Slot 0 was claimed in this cycle while slot 1 was already active: slot 0 had
\* an earlier occupant that was evicted, and two names are now tracked.
C1_Witness ==
    /\ pc = "sleep" /\ skip = "completed"
    /\ 0 \notin DOMAIN iter0.slots
    /\ 1 \in DOMAIN iter0.slots
    /\ {0, 1} \subseteq ActiveSlots(tasks, TableSize)

\* The k most recently written entries of all three histories of s are zero.
LastEntriesZero(s, k) ==
    \A d \in 1 .. k :
        LET i == (s.write_index + SAMPLE_COUNT - d) % SAMPLE_COUNT
        IN  /\ s.usage_percent_history[i] = FZero
            /\ s.stack_usage_bytes_history[i] = 0
            /\ s.stack_usage_percent_history[i] = FZero

\* C2: an active slot absent from k consecutive completed cycles stays active
\* for every k < SAMPLE_COUNT, with its k most recent history entries zero, and
\* becomes inactive exactly on the SAMPLE_COUNT-th consecutive miss, when its
\* miss counter is reset to 0 and the slot is free for reuse.
C2_EvictedOnSampleCountMisses ==
    /\ [](\A j \in ActiveSlots(tasks, TableSize) :
            /\ tasks[j].consecutive_zero_samples < SAMPLE_COUNT
            /\ LastEntriesZero(tasks[j], tasks[j].consecutive_zero_samples))
    /\ [][CompletedStep =>
            \A j \in ActiveSlots(tasks, TableSize) :
                LET m == tasks[j].consecutive_zero_samples
                IN  \/ /\ tasks'[j].is_active
                       /\ tasks'[j].consecutive_zero_samples = 0
                    \/ /\ tasks'[j].is_active
                       /\ m + 1 < SAMPLE_COUNT
                       /\ tasks'[j].consecutive_zero_samples = m + 1
                    \/ /\ ~tasks'[j].is_active
                       /\ m + 1 = SAMPLE_COUNT
                       /\ tasks'[j].consecutive_zero_samples = 0
                       /\ j \in InactiveSlots(tasks', TableSize)]_vars

\* Task "A" was seen in the first cycle only: SAMPLE_COUNT misses later its
\* slot is inactive, with the counter reset and a window of zeros.
C2_Witness ==
    /\ pc = "sleep" /\ skip = "completed"
    /\ cycles = SAMPLE_COUNT
    /\ TableSize > 0
    /\ ~tasks[0].is_active
    /\ tasks[0].task_name = "A"
    /\ tasks[0].prev_run_time_ticks = BootTime \div ShareOf("A")
    /\ tasks[0].consecutive_zero_samples = 0
    /\ LastEntriesZero(tasks[0], SAMPLE_COUNT)

\* C3: when resolve claims an inactive slot for a name that matches no active
\* slot, the slot is fully reset before its first sample is written: miss
\* counter, write cursor and previous-runtime baseline are 0 and every entry of
\* the three histories is zero, so nothing of the prior occupant is readable.
C3_ClaimedSlotIsReset ==
    pc = "update" =>
        \A n \in Names :
            (/\ ActiveMatches(tasks, TableSize, n) = {}
             /\ InactiveSlots(tasks, TableSize) # {}) =>
                LET r == FindOrCreateTaskIndex(tasks, TableSize, n)
                    s == r.tbl[r.idx]
                IN  /\ r.idx \in InactiveSlots(tasks, TableSize)
                    /\ s.is_active /\ s.task_name = n
                    /\ s.consecutive_zero_samples = 0
                    /\ s.write_index = 0
                    /\ s.prev_run_time_ticks = 0
                    /\ s.total_run_time_ticks = 0
                    /\ s.stack_high_water_mark = 0
                    /\ s.stack_size_bytes = 0
                    /\ LastEntriesZero(s, SAMPLE_COUNT)
                    /\ \A j \in 0 .. (TableSize - 1) :
                          j # r.idx => r.tbl[j] = tasks[j]

\* "A" was evicted and is about to be observed again: the slot it will claim
\* still holds what its former occupant left behind.
C3_Witness ==
    /\ pc = "update"
    /\ ActiveMatches(tasks, TableSize, "A") = {}
    /\ InactiveSlots(tasks, TableSize) # {}
    /\ LET j == SetMin(InactiveSlots(tasks, TableSize))
       IN  /\ tasks[j].task_name = "A"
           /\ tasks[j].prev_run_time_ticks # 0
           /\ tasks[j].write_index # 0

DeinitStep == api' \in {"deinit_stopped", "deinit_idle"} /\ ~monitor_task_handle'

\* C4 as stated: the capacity never decreases from one observation to the next
\* and never exceeds SYSMON_MAX_TRACKED_TASKS, whatever ensure_capacity calls
\* and lifecycle operations occur.
C4_CapacityNeverDecreases ==
    /\ [][task_capacity' >= task_capacity]_vars
    /\ [](task_capacity <= SYSMON_MAX_TRACKED_TASKS)

\* C4 amended: the capacity never decreases except when sysmon_deinit releases
\* the table and resets it to 0, and it never exceeds SYSMON_MAX_TRACKED_TASKS.
C4_CapacityMonotoneUntilDeinit ==
    /\ [][\/ task_capacity' >= task_capacity
          \/ DeinitStep /\ task_capacity' = 0 /\ tasks_ptr' = "NULL"]_vars
    /\ [](task_capacity <= SYSMON_MAX_TRACKED_TASKS)

\* The table has just grown from 5 slots to the maximum.
C4_Witness ==
    /\ pc = "sample"
    /\ iter0.task_capacity = 5
    /\ task_capacity = SYSMON_MAX_TRACKED_TASKS

\* C7: after any sequence of start() and stop() calls at most one sampling
\* loop exists; start() while the loop runs creates no second loop and leaves
\* the running one and everything it writes as they are.
C7_SingleSamplingLoop ==
    /\ [](nloops <= 1 /\ (monitor_task_handle <=> nloops = 1))
    /\ [][(/\ monitor_task_handle
           /\ api' # api
           /\ api' \in {"init_created", "init_already_running", "init_error"}) =>
            /\ nloops' = nloops
            /\ UNCHANGED << monitor_task_handle, pc, selfTable, selfSeries,
                            prev_total_run_time, num_returned, delta_total,
                            new_tasks, heapVars, skip, iter0 >>]_vars

\* sysmon_init returned ESP_OK while the loop was in the middle of a cycle.
C7_Witness ==
    /\ api = "init_already_running"
    /\ nloops = 1
    /\ pc = "update"
    /\ "tasks_seen" \in held

\* C8: after stop(), called from another context at any point of the loop's
\* cycle, sampling is halted and no sampler-allocated memory is held: table
\* and scratch buffer released and null, capacity 0, no per-cycle scratch left
\* behind, nothing freed twice; a further stop() changes nothing.
C8_StopReleasesEverything ==
    api \in {"deinit_stopped", "deinit_idle"} =>
        /\ nloops = 0 /\ pc = "none"
        /\ tasks_ptr = "NULL" /\ status_ptr = "NULL" /\ task_capacity = 0
        /\ held = {} /\ leaked = {}
        /\ ~heap_fault

GrowthFailedStep == pc = "sized" /\ pc' = "sleep"

\* C9: when ensure_capacity fails because the new table or the new scratch
\* buffer cannot be allocated it keeps no partial allocation and leaves the
\* table, every slot, the scratch buffer pointer and the capacity as they
\* were; the loop skips the cycle and retries on the next one.
C9_FailedGrowthChangesNothing ==
    /\ [][GrowthFailedStep =>
            /\ skip' = "grow_alloc"
            /\ held' = {} /\ leaked' = leaked
            /\ UNCHANGED << tasks_ptr, status_ptr, tasks, task_capacity >>]_vars
    /\ [][(pc = "sleep" /\ skip = "grow_alloc" /\ pc' # pc) => pc' = "ensure"]_vars

\* Growth of a table that tracks a task has just failed.
C9_Witness ==
    /\ pc = "sleep" /\ skip = "grow_alloc"
    /\ task_capacity > 0
    /\ ActiveSlots(tasks, TableSize) # {}

\* C10: an iteration aborted by an allocation failure leaves all committed
\* sampler state as it was before the iteration: every task slot, the global
\* series and their cursor, and the carried previous-total and previous-idle
\* baselines.
C10_AbortedIterationChangesNothing ==
    (pc = "sleep" /\ skip \in {"grow_alloc", "seen_alloc"}) =>
        LET now == Committed(tasks, TableSize, prev_total_run_time,
                             prev_idle_ticks, series, series_write_index)
        IN  /\ now.slots = iter0.slots
            /\ now.series = iter0.series
            /\ now.series_write_index = iter0.series_write_index
            /\ now.prev_idle_ticks = iter0.prev_idle_ticks
            /\ now.prev_total_run_time = iter0.prev_total_run_time

\* Entry i of every global series buffer holds what the cycle after c delays
\* measured: the heap readings of that cycle with the percentages derived from
\* them, and an overall CPU value that is the average of the two cores' at i.
SeriesEntryOfCycle(ser, i, c) ==
    LET m == MemReading(c, PsramTotal)
    IN  /\ ser.dram_free[i] = m.dram_free
        /\ ser.dram_min_free[i] = m.dram_min_free
        /\ ser.dram_largest_block[i] = m.dram_largest
        /\ ser.dram_total[i] = m.dram_total
        /\ ser.dram_used_percent[i][1] * m.dram_total =
               ser.dram_used_percent[i][2] * 100 * (m.dram_total - m.dram_free)
        /\ ser.psram_free[i] = m.psram_free
        /\ ser.psram_total[i] = m.psram_total
        /\ ser.psram_used_percent[i][1] * m.psram_total =
               ser.psram_used_percent[i][2] * 100 * (m.psram_total - m.psram_free)
        /\ ser.cpu_overall_percent[i] =
               FHalf(FAdd(ser.cpu_core_percent_0[i], ser.cpu_core_percent_1[i]))

SeriesEntryUnwritten(ser, i) == \A b \in DOMAIN ser : ser[b][i] = ZeroSeries[b][i]

\* C11: at every cycle boundary, for every index i all global series buffers
\* (overall CPU, both per-core CPU, DRAM and PSRAM series) hold at index i
\* values written in the same cycle; a completed cycle writes every buffer at
\* the shared cursor only and advances the cursor by exactly one modulo
\* SAMPLE_COUNT, and a skipped cycle changes neither the buffers nor the cursor.
C11_SeriesAligned ==
    /\ [](pc = "sleep" =>
            \A i \in Idx :
                \/ SeriesEntryUnwritten(series, i)
                \/ \E c \in 0 .. cycles : SeriesEntryOfCycle(series, i, c))
    /\ [][CompletedStep =>
            /\ series_write_index' = (series_write_index + 1) % SAMPLE_COUNT
            /\ SeriesEntryOfCycle(series', series_write_index, cycles)
            /\ \A i \in Idx \ {series_write_index} :
                  \A b \in DOMAIN series : series'[b][i] = series[b][i]]_vars
    /\ [][~CompletedStep => UNCHANGED << series, series_write_index >>]_vars

\* The ring has wrapped after one skipped cycle: the fifth cycle has just
\* overwritten entry 0, entries 1 and 2 are those of the second and the fourth.
C11_Witness ==
    /\ pc = "sleep" /\ skip = "completed"
    /\ cycles = 4
    /\ series_write_index = 1
    /\ SeriesEntryOfCycle(series, 0, 4)
    /\ SeriesEntryOfCycle(series, 1, 1)
    /\ SeriesEntryOfCycle(series, 2, 3)

\* Slot after of a completed cycle holds exactly one append more than slot
\* before: the cursor is one further and only the entry under the old cursor
\* may differ, in each of the three histories.
OneAppend(before, after) ==
    /\ after.write_index = (before.write_index + 1) % SAMPLE_COUNT
    /\ \A i \in Idx \ {before.write_index} :
          /\ after.usage_percent_history[i] = before.usage_percent_history[i]
          /\ after.stack_usage_bytes_history[i] = before.stack_usage_bytes_history[i]
          /\ after.stack_usage_percent_history[i] = before.stack_usage_percent_history[i]

\* C12: in every completed sampling cycle each slot that is active during the
\* cycle (active when it began, or claimed in it) receives exactly one appended
\* value in each of its three history buffers and its write cursor advances by
\* exactly one modulo SAMPLE_COUNT, whether the task was observed or not; no
\* slot is appended to twice or skipped.
C12_OneAppendPerCycle ==
    [][CompletedStep =>
        \A j \in 0 .. (TableSize - 1) :
            (tasks[j].is_active \/ tasks'[j].is_active) =>
                OneAppend(IF tasks[j].is_active THEN tasks[j] ELSE ZeroSlot,
                          tasks'[j])]_vars

\* C13: when ensure_capacity has reallocated the table, every slot that was
\* active before the call is active afterwards at the same index with identical
\* name, miss counter, baseline, cursor, metadata and histories; every other
\* slot of the new table (uncopied inactive slots and the added indices) is
\* inactive and all-zero; and the new capacity is strictly greater than the old.
C13_ReallocationKeepsActiveSlots ==
    (pc = "sample" /\ task_capacity # iter0.task_capacity) =>
        /\ task_capacity > iter0.task_capacity
        /\ tasks_ptr = "VALID" /\ status_ptr = "VALID"
        /\ DOMAIN tasks = 0 .. (task_capacity - 1)
        /\ \A j \in DOMAIN tasks :
              IF j \in DOMAIN iter0.slots
              THEN tasks[j] = iter0.slots[j] /\ tasks[j].is_active
              ELSE tasks[j] = ZeroSlot /\ ~tasks[j].is_active

\* A table of 2 slots has grown to 3: slot 1 was active and is kept, slot 0 was
\* claimed before slot 1 and evicted since, and is now all-zero.
C13_Witness ==
    /\ pc = "sample"
    /\ iter0.task_capacity = 2
    /\ task_capacity = 3
    /\ DOMAIN iter0.slots = {1}
    /\ tasks[1] = iter0.slots[1]
    /\ tasks[1].write_index # 0
    /\ tasks[0] = ZeroSlot

\* min(n + max(1, floor(n * p / 100)), MAX)
GrowthTarget(n, p) ==
    LET g == (n * p) \div 100
        t == n + (IF g >= 1 THEN g ELSE 1)
    IN  IF t <= SYSMON_MAX_TRACKED_TASKS THEN t ELSE SYSMON_MAX_TRACKED_TASKS

\* C14: ensure_capacity leaves the capacity unchanged when a table exists and
\* the kernel query returned strictly fewer entries than capacity; otherwise,
\* with n the observed count (the query result when the table was exactly
\* full, the kernel's live-task count when no table exists), the target is
\* min(n + max(1, floor(n*p/100)), MAX) with p = 50 when the table was exactly
\* full and p = 20 otherwise, and the table is reallocated to the target only
\* when the target exceeds the current capacity (a full table already at MAX
\* succeeds without reallocating).
C14_GrowthTarget ==
    /\ [][(pc = "sized" /\ pc' # pc) =>
            LET n      == actual_task_count
                exists == task_capacity > 0 /\ tasks_ptr = "VALID"
                p      == IF exists /\ n = task_capacity THEN 50 ELSE 20
                target == GrowthTarget(n, p)
            IN  IF (exists /\ n < task_capacity) \/ target <= task_capacity
                THEN /\ pc' = "sample"
                     /\ UNCHANGED << task_capacity, tasks, tasks_ptr, status_ptr,
                                     new_tasks, held >>
                ELSE \/ /\ pc' = "copy"
                        /\ DOMAIN new_tasks' = 0 .. (target - 1)
                        /\ UNCHANGED task_capacity
                     \/ /\ pc' = "sleep" /\ skip' = "grow_alloc"
                        /\ UNCHANGED << task_capacity, tasks >>]_vars
    /\ [][(pc = "adopt" /\ pc' # pc) =>
            /\ pc' = "sample"
            /\ DOMAIN tasks' = DOMAIN new_tasks
            /\ task_capacity' = Cardinality(DOMAIN new_tasks)]_vars

\* A table of 4 slots that the query filled exactly has grown by 50% to 6.
C14_Witness ==
    /\ pc = "sample"
    /\ iter0.task_capacity = 4
    /\ task_capacity = 6
    /\ DOMAIN tasks = 0 .. 5

\* C15: each core's idle delta follows the same modular wraparound rule as
\* delta_total: for every pair (prev_idle, idle_now) the delta the core's usage
\* is computed from is (idle_now - prev_idle) modulo the word size, i.e.
\* (MAX - prev_idle) + idle_now + 1 when idle_now < prev_idle, and the carried
\* previous-idle value is then set to idle_now.
C15_IdleDeltaWraps ==
    [][CompletedStep =>
        LET w    == series_write_index
            now0 == IdleTicks(task_status, "IDLE0", 1, 0)
            now1 == IdleTicks(task_status, "IDLE1", 1, 0)
            d0   == IF now0 >= prev_idle_ticks[1] THEN now0 - prev_idle_ticks[1]
                    ELSE (UINT32_MAX - prev_idle_ticks[1]) + now0 + 1
            d1   == IF now1 >= prev_idle_ticks[2] THEN now1 - prev_idle_ticks[2]
                    ELSE (UINT32_MAX - prev_idle_ticks[2]) + now1 + 1
        IN  /\ d0 = (now0 - prev_idle_ticks[1]) % U32
            /\ d1 = (now1 - prev_idle_ticks[2]) % U32
            /\ IsCoreUsage(series'.cpu_core_percent_0[w], d0, delta_total)
            /\ IsCoreUsage(series'.cpu_core_percent_1[w], d1, delta_total)
            /\ prev_idle_ticks' = <<now0, now1>>]_vars

\* C16: when the kernel snapshot query returns zero entries the cycle is
\* skipped as a transient failure: no per-task update, eviction or series
\* append runs on an empty snapshot; the previous-total baseline is not
\* updated, no slot's miss counter, history, cursor or active flag changes,
\* the global series and its cursor are unchanged, and the loop retries after
\* the sleep.
C16_EmptySnapshotSkipsCycle ==
    /\ [](pc = "update" => (num_returned >= 1 /\ Len(task_status) = num_returned))
    /\ []((pc = "sleep" /\ skip = "no_tasks") =>
            LET now == Committed(tasks, TableSize, prev_total_run_time,
                                 prev_idle_ticks, series, series_write_index)
            IN  /\ now.prev_total_run_time = iter0.prev_total_run_time
                /\ now.slots = iter0.slots
                /\ now.series = iter0.series
                /\ now.series_write_index = iter0.series_write_index
                /\ now.prev_idle_ticks = iter0.prev_idle_ticks
                /\ held = {})
    /\ [][(pc = "sleep" /\ skip = "no_tasks" /\ pc' # pc) => pc' = "ensure"]_vars

\* The query has just returned no entry while a task is tracked and the
\* kernel's counter has moved on from the carried baseline.
C16_Witness ==
    /\ pc = "sleep" /\ skip = "no_tasks"
    /\ ActiveSlots(tasks, TableSize) # {}
    /\ prev_total_run_time # kernel_time
    /\ prev_total_run_time # 0

\* The task names of a snapshot.
SnapshotNames(snap) == {snap[i].pcTaskName : i \in DOMAIN snap} \ {NullName}

\* Entry d of s counted back from the write cursor (1: the latest append).
StackBytesBack(s, d) ==
    s.stack_usage_bytes_history[(s.write_index + SAMPLE_COUNT - d) % SAMPLE_COUNT]

\* C17: every observation of a tracked task resets its slot's miss counter to
\* 0, so at every cycle boundary an active slot's miss counter is the number of
\* completed cycles since the slot was last seen (that many zero appends lie
\* on top of the last real sample) and is < SAMPLE_COUNT; a slot is deactivated
\* only by its SAMPLE_COUNT-th consecutive miss, never in a cycle that observes
\* its task.
C17_MissCounterCountsCyclesSinceSeen ==
    /\ [](pc \in {"sleep", "ensure"} =>
            \A j \in ActiveSlots(tasks, TableSize) :
                LET m == tasks[j].consecutive_zero_samples
                IN  /\ m < SAMPLE_COUNT
                    /\ \A d \in 1 .. m : StackBytesBack(tasks[j], d) = 0
                    /\ StackBytesBack(tasks[j], m + 1) # 0)
    /\ [][CompletedStep =>
            \A j \in 0 .. (TableSize - 1) :
                LET seen == tasks'[j].task_name \in SnapshotNames(task_status)
                    m    == tasks[j].consecutive_zero_samples
                IN  /\ (tasks'[j].is_active /\ seen) =>
                            tasks'[j].consecutive_zero_samples = 0
                    /\ (tasks[j].is_active /\ seen) => tasks'[j].is_active
                    /\ (tasks[j].is_active /\ ~seen /\ tasks'[j].is_active) =>
                            tasks'[j].consecutive_zero_samples = m + 1
                    /\ (tasks[j].is_active /\ ~tasks'[j].is_active) =>
                            (~seen /\ m = SAMPLE_COUNT - 1)]_vars

\* A task missed in SAMPLE_COUNT - 1 consecutive cycles has been observed
\* again: its slot is still active and its miss counter is back at 0.
C17_Witness ==
    /\ pc = "sleep" /\ skip = "completed"
    /\ \E j \in DOMAIN iter0.slots :
          /\ iter0.slots[j].consecutive_zero_samples = SAMPLE_COUNT - 1
          /\ tasks[j].is_active
          /\ tasks[j].task_name = iter0.slots[j].task_name
          /\ tasks[j].consecutive_zero_samples = 0
          /\ StackBytesBack(tasks[j], 1) # 0
          /\ StackBytesBack(tasks[j], 2) = 0

\* Every entry of the three histories of s is zero.
WindowAllZero(s) ==
    \A i \in Idx :
        /\ s.usage_percent_history[i] = FZero
        /\ s.stack_usage_bytes_history[i] = 0
        /\ s.stack_usage_percent_history[i] = FZero

\* C18: from the moment a slot is deactivated by eviction, every one of the
\* SAMPLE_COUNT entries of each of its three history buffers is zero (the
\* SAMPLE_COUNT consecutive zero appends have overwritten the whole window),
\* for any prior history and any cursor position at the time the task
\* disappeared.
C18_EvictedWindowAllZero ==
    \A j \in InactiveSlots(tasks, TableSize) : WindowAllZero(tasks[j])

\* A slot active when the cycle began has just been evicted; its task was
\* sampled twice before it disappeared, so the zeros started at cursor 2.
C18_Witness ==
    /\ pc = "sleep" /\ skip = "completed"
    /\ \E j \in DOMAIN iter0.slots :
          /\ ~tasks[j].is_active
          /\ tasks[j].task_name # NoName
          /\ tasks[j].total_run_time_ticks # 0
          /\ tasks[j].write_index = 2
          /\ WindowAllZero(tasks[j])

\* The run-time counter of the last entry of snap named n.
RECURSIVE LastCounterOf(_, _, _, _)
LastCounterOf(snap, n, i, acc) ==
    IF i > Len(snap) THEN acc
    ELSE LastCounterOf(snap, n, i + 1,
                       IF snap[i].pcTaskName = n THEN snap[i].ulRunTimeCounter ELSE acc)

\* C19: when a sampled task's name matches no active slot and the table has
\* no inactive slot (left), resolve returns none and modifies no slot: the
\* name stays untracked and every slot of another name is only sampled or
\* aged as usual; the remaining entries of the same snapshot are still
\* resolved and updated, eviction and the global series append still run and
\* the cycle completes normally; a name is left untracked only in a cycle that
\* leaves no free slot unused, so it is resolved from scratch in the next one.
C19_CapacityExceededSkipsOnlyThatTask ==
    [][CompletedStep =>
        LET names == SnapshotNames(task_status)
            slots == 0 .. (TableSize - 1)
        IN  /\ pc' = "sleep" /\ skip' = "completed"
            /\ series_write_index' = (series_write_index + 1) % SAMPLE_COUNT
            /\ \A n \in names :
                  \/ \E j \in slots :
                        /\ tasks'[j].is_active /\ tasks'[j].task_name = n
                        /\ tasks'[j].consecutive_zero_samples = 0
                        /\ tasks'[j].total_run_time_ticks =
                              LastCounterOf(task_status, n, 1, 0)
                  \/ /\ \A j \in slots : tasks[j].is_active \/ tasks'[j].is_active
                     /\ \A j \in slots : tasks'[j].task_name # n
            /\ \A j \in slots :
                  (tasks[j].is_active /\ tasks[j].task_name \notin names) =>
                      LET m == tasks[j].consecutive_zero_samples + 1
                      IN  /\ tasks'[j].task_name = tasks[j].task_name
                          /\ tasks'[j].prev_run_time_ticks = tasks[j].prev_run_time_ticks
                          /\ tasks'[j].total_run_time_ticks = tasks[j].total_run_time_ticks
                          /\ tasks'[j].is_active = (m < SAMPLE_COUNT)
                          /\ tasks'[j].consecutive_zero_samples =
                                (IF m < SAMPLE_COUNT THEN m ELSE 0)
            /\ \A j \in slots :
                  (~tasks[j].is_active /\ ~tasks'[j].is_active) => tasks'[j] = tasks[j]]_vars

\* Both slots of the table were active when the cycle began; its snapshot of
\* two entries held "A" once (one append, counter renewed) and not "B" (aged
\* by one miss), so its other entry was a third name, which found no slot.
C19_Witness ==
    /\ pc = "sleep" /\ skip = "completed"
    /\ num_returned = 2
    /\ TableSize = 2
    /\ DOMAIN iter0.slots = {0, 1}
    /\ \E a, b \in {0, 1} :
          /\ a # b
          /\ tasks[a].is_active /\ tasks[a].task_name = "A"
          /\ tasks[a].consecutive_zero_samples = 0
          /\ tasks[a].total_run_time_ticks = kernel_time \div ShareOf("A")
          /\ tasks[a].write_index = (iter0.slots[a].write_index + 1) % SAMPLE_COUNT
          /\ tasks[b].is_active /\ tasks[b].task_name = "B"
          /\ tasks[b].consecutive_zero_samples =
                iter0.slots[b].consecutive_zero_samples + 1

LastUsage(s) ==
    s.usage_percent_history[(s.write_index + SAMPLE_COUNT - 1) % SAMPLE_COUNT]

\* Slot j took part in the last completed cycle under the name of snapshot
\* entry t, and neither the global counter nor the task's counter has wrapped
\* since the baselines were taken (a wrapped delta_total exceeds the counter
\* it ends at).
SameBaseline(j, t) ==
    /\ tasks[j].is_active
    /\ tasks[j].task_name = t.pcTaskName
    /\ tasks[j].consecutive_zero_samples = 0
    /\ delta_total <= prev_total_run_time
    /\ t.ulRunTimeCounter >= tasks[j].prev_run_time_ticks

\* C21: on a kernel with consistent counters and no wrap, the delta_task of
\* every recorded per-task sample is at most the delta_total of the same cycle
\* and the recorded cpu_percent never exceeds 100, also in the first sample
\* after an aborted iteration; stated for the slots that were sampled in the
\* last completed cycle, in a snapshot of distinct names.
C21_TaskDeltaWithinTotalDelta ==
    [][CompletedStep =>
        \A i \in 1 .. Len(task_status) : \A j \in 0 .. (TableSize - 1) :
            (/\ Cardinality(SnapshotNames(task_status)) = Len(task_status)
             /\ SameBaseline(j, task_status[i])) =>
                /\ task_status[i].ulRunTimeCounter - tasks[j].prev_run_time_ticks
                      <= delta_total
                /\ FLe(LastUsage(tasks'[j]), FInt(100))]_vars

\* C22: in every completed cycle whose snapshot holds fewer entries than the
\* table has slots (ensure_capacity did not grow the table in this cycle) and
\* holds distinct names, every returned task is resolved to an active slot that
\* was updated in the cycle, also when slots are still held by disappeared
\* tasks that have not reached SAMPLE_COUNT misses.
C22_SnapshotBelowCapacityAllResolved ==
    [][(/\ CompletedStep
        /\ Len(task_status) < TableSize
        /\ task_capacity = iter0.task_capacity
        /\ Cardinality(SnapshotNames(task_status)) = Len(task_status)) =>
            \A n \in SnapshotNames(task_status) :
                \E j \in 0 .. (TableSize - 1) :
                    /\ tasks'[j].is_active
                    /\ tasks'[j].task_name = n
                    /\ tasks'[j].consecutive_zero_samples = 0]_vars

\* No iteration is being abandoned: no allocation and no kernel query has
\* failed in the current iteration.
NoFailure == skip \in {"none", "completed"}

\* Every task of the settled set has an active slot.
AllLiveTracked ==
    /\ cycles >= SettleCycle
    /\ \A n \in SettledTasks :
          \E j \in 0 .. (TableSize - 1) :
              tasks[j].is_active /\ tasks[j].task_name = n

\* C23: once the set of live tasks is fixed (distinct names, at most
\* SYSMON_MAX_TRACKED_TASKS of them), if from some cycle on every cycle
\* completes, then eventually every live task has an active slot and keeps it
\* for ever: a task left untracked for lack of a slot is not starved.
C23_LiveTasksEventuallyTracked == (<>[]NoFailure) => (<>[]AllLiveTracked)

\* All settled tasks are tracked in a table whose first slot was claimed by a
\* task of the first set, evicted, and claimed again by a settled task that
\* had found no slot; the second slot still shows the evicted task's name.
C23_Witness ==
    /\ pc = "sleep" /\ skip = "completed"
    /\ AllLiveTracked
    /\ tasks[0].is_active /\ tasks[0].task_name \in SettledTasks
    /\ ~tasks[1].is_active /\ tasks[1].task_name \in FirstTasks

====
